---- MODULE Spec2Model ----
(***************************************************************************)
(* Quackle's Monte Carlo simulator (src/sim.cpp): the Simulator facade,    *)
(* its simmed-move list, and the rollout loop of simulate(plies).          *)
(*                                                                         *)
(* Units.  Scores, spreads and static equities are integers.  Values the   *)
(* code keeps as doubles are kept as scaled integers:                      *)
(*   - residuals and win values in half units (0.5 is 1, 1.0 is 2);        *)
(*   - equities compared by moves() in units of 1/(2*AvgScale), so that    *)
(*     every average sum/n with n <= MaxCount is an integer.               *)
(***************************************************************************)
EXTENDS Integers, Sequences, FiniteSets

\* ---------------------------------------------------------------- bounds

\* Number of distinct moves the callers and the position draw from.
NumMoves == 2
\* Largest lookahead depth passed to simulate (plies, candidate excluded).
MaxPlies == 2
\* Largest number of values any accumulator incorporates before the
\* calls that would add more are no longer taken.
MaxCount == 2
\* Largest id the process-wide counter hands out.
MaxId == 3
\* Longest considered-move list.
MaxConsidered == 1

Moves == 1 .. NumMoves

\* The fields of a Move the simulator reads: score, static equity, bingo.
Score(m) == m
Equity(m) == 3 * m - 2
IsBingo(m) == m = NumMoves

RECURSIVE Factorial(_)
Factorial(k) == IF k <= 1 THEN 1 ELSE k * Factorial(k - 1)

\* Common multiple of every count an average can be taken over.
AvgScale == Factorial(MaxCount)

\* ------------------------------------------------------- sequence helpers

Range(s) == {s[i] : i \in DOMAIN s}

NoDuplicates(s) == \A i, j \in DOMAIN s : s[i] = s[j] => i = j

SeqsUpTo(S, k) == UNION {[1 .. n -> S] : n \in 0 .. k}

\* MoveList::contains
Contains(list, m) == \E i \in DOMAIN list : list[i] = m

\* ---------------------------------------------------------- AveragedValue

\* AveragedValue(): the three sums of a fresh accumulator.
NewAveragedValue == [sum |-> 0, sq |-> 0, n |-> 0]

\* AveragedValue::clear
ClearAveragedValue(av) == [sum |-> 0, sq |-> 0, n |-> 0]

\* AveragedValue::incorporateValue
IncorporateValue(av, x) ==
    [sum |-> av.sum + x, sq |-> av.sq + x * x, n |-> av.n + 1]

\* AveragedValue::averagedValue, times AvgScale (0 when nothing was
\* incorporated).
AveragedValueScaled(av) ==
    IF av.n = 0 THEN 0 ELSE av.sum * (AvgScale \div av.n)

\* --------------------------------------------------- Level and LevelList

NewPositionStatistics == [score |-> NewAveragedValue, bingos |-> NewAveragedValue]

\* Level::setNumberScores: extends, never truncates.
RECURSIVE SetNumberScores(_, _)
SetNumberScores(statistics, number) ==
    IF Len(statistics) < number
        THEN SetNumberScores(Append(statistics, NewPositionStatistics), number)
        ELSE statistics

\* LevelList::setNumberLevels: extends with empty levels, never truncates.
RECURSIVE SetNumberLevels(_, _)
SetNumberLevels(levels, number) ==
    IF Len(levels) < number
        THEN SetNumberLevels(Append(levels, << >>), number)
        ELSE levels

\* ------------------------------------------------------------- SimmedMove

\* SimmedMove(move): a fresh id, included, empty accumulators.
NewSimmedMove(m, id) ==
    [move |-> m, id |-> id, includeInSimulation |-> TRUE, levels |-> << >>,
     residual |-> NewAveragedValue, gameSpread |-> NewAveragedValue,
     wins |-> NewAveragedValue]

\* SimmedMove::clear
SimmedMoveClear(sm) == [sm EXCEPT !.levels = << >>]

RECURSIVE SumSeq(_)
SumSeq(s) == IF s = << >> THEN 0 ELSE Head(s) + SumSeq(Tail(s))

\* A faulty level sum: the scores of all slots are added.
LevelEquityScaledAllAdded(statistics) ==
    SumSeq([k \in DOMAIN statistics |-> AveragedValueScaled(statistics[k].score)])

\* The contribution of one level to calculateEquity: plus the first slot's
\* average score, minus every other slot's.
LevelEquityScaled(statistics) ==
    SumSeq([k \in DOMAIN statistics |->
        IF k = 1 THEN AveragedValueScaled(statistics[k].score)
                 ELSE 0 - AveragedValueScaled(statistics[k].score)])

\* SimmedMove::calculateEquity, times 2 * AvgScale.
CalculateEquityScaled(sm) ==
    IF sm.levels = << >>
        THEN 2 * AvgScale * Equity(sm.move)
        ELSE 2 * SumSeq([l \in DOMAIN sm.levels |-> LevelEquityScaled(sm.levels[l])])
             + AveragedValueScaled(sm.residual)

\* ------------------------------------------------------- MoveList::sort

\* MoveList::equityComparator / winComparator: does a sort before b.
SortsBefore(a, b, byWin) ==
    IF byWin /\ a.win # b.win THEN a.win > b.win ELSE a.equity > b.equity

\* Stable insertion of x into the sorted list s.
RECURSIVE InsertSorted(_, _, _)
InsertSorted(x, s, byWin) ==
    IF s = << >> THEN << x >>
    ELSE IF SortsBefore(x, Head(s), byWin) THEN << x >> \o s
    ELSE << Head(s) >> \o InsertSorted(x, Tail(s), byWin)

\* MoveList::sort(list, Win | Equity): descending, stable.
RECURSIVE SortMoveList(_, _)
SortMoveList(list, byWin) ==
    IF list = << >> THEN << >>
    ELSE InsertSorted(list[Len(list)],
                      SortMoveList(SubSeq(list, 1, Len(list) - 1), byWin), byWin)

\* ------------------------------------------------------------ the state

VARIABLES
    simmedMoves,       \* m_simmedMoves
    consideredMoves,   \* m_consideredMoves
    m_iterations,      \* m_iterations
    objectIdCounter,   \* SimmedMove::objectIdCounter
    originalGame,      \* m_originalGame's current position
    m_dispatch,        \* whether a ComputerDispatch is set
    m_ignoreOppos,     \* m_ignoreOppos
    pc,                \* where the running simulate call stands, "idle" between calls
    callKind,          \* "loop" for simulate(plies, iterations), "single" for simulate(plies)
    callPlies,         \* the plies argument of the running call
    callIterations,    \* the iterations argument of the running call
    callI,             \* the loop variable i of simulate(plies, iterations)
    polls,             \* how often the running call asked shouldAbort
    abortSeen,         \* whether shouldAbort answered true in the running call
    plies,             \* the local plies of simulate(plies), after its increment
    cursor,            \* position of moveIt in m_simmedMoves
    m_simulatedGame,   \* m_simulatedGame's current position
    residual,          \* the local residual of a rollout, in half units
    message,           \* the SimmedMoveMessage of a rollout
    levelNumber,       \* the local levelNumber (levelIt is at the same position)
    slot,              \* position of scoresIt in the level's statistics
    playerNumber,      \* the local playerNumber
    committed,         \* history: the plies of the running rollout, as the
                       \* engine and the accumulators saw them
    bogowinCall,       \* history: the arguments of the rollout's bogowin call
    entryIterations,   \* history: m_iterations when the running call started
    lastOp,            \* history: the facade operation called last
    onlySimulated,     \* history: no operation but addConsideredMove and
                       \* simulate was called since the last setPosition
    includedSetKept,   \* history: setIncludedMoves has not run since the
                       \* last setPosition
    m_logfile,         \* m_logfile, the name of the log file
    m_logfileIsOpen,   \* m_logfileIsOpen
    m_hasHeader,       \* m_hasHeader
    logText            \* the <simulation> and <iteration> tags in the log file

facadeVars == << simmedMoves, consideredMoves, m_iterations, objectIdCounter,
                 originalGame, m_dispatch, m_ignoreOppos >>

callVars == << callKind, callPlies, callIterations, callI, polls, abortSeen,
              entryIterations >>

historyVars == << lastOp, onlySimulated, includedSetKept >>

logVars == << m_logfile, m_logfileIsOpen, m_hasHeader, logText >>

iterationVars == << plies, cursor >>

rolloutVars == << m_simulatedGame, residual, message, levelNumber, slot, playerNumber,
                 committed, bogowinCall >>

vars == << simmedMoves, consideredMoves, m_iterations, objectIdCounter,
           originalGame, m_dispatch, m_ignoreOppos, pc, callKind, callPlies,
           callIterations, callI, polls, abortSeen, plies, cursor,
           m_simulatedGame, residual, message, levelNumber, slot, playerNumber,
           committed, bogowinCall, entryIterations, lastOp, onlySimulated, includedSetKept,
           m_logfile, m_logfileIsOpen, m_hasHeader, logText >>

\* Simulator::hasSimulationResults
HasSimulationResults(iterations) == iterations > 0

\* Simulator::moves(prune, byWin) over a simmed-move list.
RECURSIVE CollectMoves(_, _, _)
CollectMoves(sms, prune, useCalculatedEquity) ==
    IF sms = << >> THEN << >>
    ELSE LET it == Head(sms)
             rest == CollectMoves(Tail(sms), prune, useCalculatedEquity)
         IN  IF prune /\ ~it.includeInSimulation THEN rest
             ELSE << [move |-> it.move,
                      equity |-> IF useCalculatedEquity
                                     THEN CalculateEquityScaled(it)
                                     ELSE 2 * AvgScale * Equity(it.move),
                      win |-> IF useCalculatedEquity
                                  THEN AveragedValueScaled(it.wins)
                                  ELSE 0] >> \o rest

MovesOf(sms, iterations, prune, byWin) ==
    LET useCalculatedEquity == HasSimulationResults(iterations)
    IN  SortMoveList(CollectMoves(sms, prune, useCalculatedEquity),
                     byWin /\ useCalculatedEquity)

\* A faulty find: it looks among the included simmed moves only.
FindSimmedMoveAmongIncluded(sms, m) ==
    IF \E i \in DOMAIN sms : sms[i].move = m /\ sms[i].includeInSimulation
        THEN CHOOSE i \in DOMAIN sms :
                 /\ sms[i].move = m
                 /\ sms[i].includeInSimulation
                 /\ \A j \in 1 .. i - 1 :
                        ~(sms[j].move = m /\ sms[j].includeInSimulation)
        ELSE 0

\* The index of the first simmed move equal to m, 0 when there is none.
FindSimmedMove(sms, m) ==
    IF \E i \in DOMAIN sms : sms[i].move = m
        THEN CHOOSE i \in DOMAIN sms :
                 /\ sms[i].move = m
                 /\ \A j \in 1 .. i - 1 : sms[j].move # m
        ELSE 0

\* The second loop of setIncludedMoves: one input move after the other.
RECURSIVE IncludeEach(_, _, _)
IncludeEach(sms, counter, moves) ==
    IF moves = << >> THEN [simmed |-> sms, counter |-> counter]
    ELSE LET found == FindSimmedMove(sms, Head(moves))
         IN  IF found # 0
                 THEN IncludeEach([sms EXCEPT ![found].includeInSimulation = TRUE],
                                  counter, Tail(moves))
                 ELSE IncludeEach(Append(sms, NewSimmedMove(Head(moves), counter + 1)),
                                  counter + 1, Tail(moves))

\* A faulty setIncludedMoves: its first loop clears each simmed move it
\* excludes.
SetIncludedMovesOfClearing(sms, counter, moves) ==
    IncludeEach([i \in DOMAIN sms |->
                    [SimmedMoveClear(sms[i]) EXCEPT !.includeInSimulation = FALSE]],
                counter, moves)

\* A faulty setIncludedMoves: its first loop is missing.
SetIncludedMovesOfKeepingFlags(sms, counter, moves) ==
    IncludeEach(sms, counter, moves)

\* Simulator::setIncludedMoves
SetIncludedMovesOf(sms, counter, moves) ==
    IncludeEach([i \in DOMAIN sms |-> [sms[i] EXCEPT !.includeInSimulation = FALSE]],
                counter, moves)

\* The moves of a list returned by moves().
MoveIds(list) == [i \in DOMAIN list |-> list[i].move]

\* The loop of pruneTo: of the first maxNumberOfMoves entries, those at or
\* above the threshold.
RECURSIVE PruneLoop(_, _, _, _)
PruneLoop(equityMoves, i, maxNumberOfMoves, absoluteEquityThreshold) ==
    IF ~(i < maxNumberOfMoves /\ i < Len(equityMoves)) THEN << >>
    ELSE (IF equityMoves[i + 1].equity >= absoluteEquityThreshold
              THEN << equityMoves[i + 1] >> ELSE << >>)
         \o PruneLoop(equityMoves, i + 1, maxNumberOfMoves, absoluteEquityThreshold)

\* A faulty superset: the considered moves are not added.
MovesSupersetOfListOnly(list, considered) == list

\* Simulator::makeSureConsideredMovesAreIncluded: the superset it builds.
RECURSIVE MovesSuperset(_, _)
MovesSuperset(list, considered) ==
    IF considered = << >> THEN list
    ELSE MovesSuperset(IF Contains(list, Head(considered))
                           THEN list ELSE Append(list, Head(considered)),
                       Tail(considered))

\* ------------------------------------------------------ the rules engine

\* Largest number of players of a position.
MaxPlayers == 2

\* What randomizeOppoRacks and randomizeDrawingOrder draw: the opponents'
\* racks and the drawing order, as far as a rollout depends on them: the
\* turn whose move ends the game, the leave valuations (half units) and
\* the deadwood score.
\* Tiles in the bag of a position handed to setPosition, and the
\* parameter rackSize.
InitialBagSize == 2
RackSize == 7

Hidden == [endTurn : 1 .. MaxPlies + 2, playerConsideration : {1},
           sharedConsideration : {2}, deadwood : {1}]

InitialHidden == [endTurn |-> MaxPlies + 2, playerConsideration |-> 1,
                  sharedConsideration |-> 2, deadwood |-> 1]

\* The simulator before setPosition: a game with one empty position.
NoPosition == [numPlayers |-> 0, currentPlayer |-> 0, gameOver |-> FALSE,
               spread |-> 0, turn |-> 0, bagSize |-> 0, hidden |-> InitialHidden]

\* A position handed to setPosition: the start player is player 0 and is
\* on turn; spread is the spread seen from the start player; turn counts
\* the moves committed since.
NewPosition(numPlayers, gameOver) ==
    [numPlayers |-> numPlayers, currentPlayer |-> 0, gameOver |-> gameOver,
     spread |-> 0, turn |-> 0, bagSize |-> InitialBagSize,
     hidden |-> InitialHidden]

\* The move lists of a position: the enumerated moves, each once.
PositionMoveLists == {l \in SeqsUpTo(Moves, NumMoves) : NoDuplicates(l)}

CandidateMove(m) == [score |-> Score(m), isBingo |-> IsBingo(m), isPass |-> FALSE]

\* Move::createPassMove
PassMove == [score |-> 0, isBingo |-> FALSE, isPass |-> TRUE]

\* GamePosition::staticBestMove
StaticBestMove(g) == [score |-> 1, isBingo |-> FALSE, isPass |-> FALSE]

\* GamePosition::doesMoveEndGame: the move placed on turn endTurn plays
\* out; a pass does not end the game.
DoesMoveEndGame(g, move) == ~move.isPass /\ g.turn + 1 = g.hidden.endTurn

\* GamePosition::deadwood
Deadwood(g) == g.hidden.deadwood

\* GamePosition::calculatePlayerConsideration, in half units
CalculatePlayerConsideration(g, move) == g.hidden.playerConsideration

\* GamePosition::calculateSharedConsideration, in half units
CalculateSharedConsideration(g, move) == g.hidden.sharedConsideration

\* Game::setCandidate and Game::commitCandidate: the move is scored for the
\* player on turn, with the deadwood when it ends the game, and the turn
\* passes on.
CommitCandidate(g, move, maintainBoard) ==
    LET ends == DoesMoveEndGame(g, move)
        gain == move.score + (IF ends THEN Deadwood(g) ELSE 0)
    IN  [g EXCEPT !.spread = IF g.currentPlayer = 0 THEN @ + gain ELSE @ - gain,
                  !.gameOver = ends,
                  !.currentPlayer = (@ + 1) % g.numPlayers,
                  !.bagSize = IF move.isPass \/ @ = 0 THEN @ ELSE @ - 1,
                  !.turn = @ + 1]

\* GamePosition::spread(startPlayerId)
Spread(g) == g.spread

\* StrategyParameters::bogowin, in half units
Bogowin(lead) == IF lead > 0 THEN 2 ELSE IF lead = 0 THEN 1 ELSE 0

\* A faulty cast: toward minus infinity.
IntCastFloor(halves) == halves \div 2

\* The cast (int)x of a double x given in half units: toward zero.
IntCast(halves) == IF halves >= 0 THEN halves \div 2 ELSE 0 - ((0 - halves) \div 2)

\* ------------------------------------------------------------------ Init

\* No bogowin call was made.
NoBogowinCall == [made |-> FALSE, spread |-> 0, resource |-> 0]

NoMessage == [id |-> 0, levels |-> << >>, residual |-> 0, gameSpread |-> 0,
              wins |-> 0, bogowin |-> FALSE]

Init ==
    /\ simmedMoves = << >>
    /\ consideredMoves = << >>
    /\ m_iterations = 0
    /\ objectIdCounter = 0
    /\ originalGame = NoPosition
    /\ m_dispatch = FALSE
    /\ m_ignoreOppos = FALSE
    /\ pc = "idle"
    /\ callKind = "none"
    /\ callPlies = 0
    /\ callIterations = 0
    /\ callI = 0
    /\ polls = 0
    /\ abortSeen = FALSE
    /\ plies = 0
    /\ cursor = 0
    /\ m_simulatedGame = NoPosition
    /\ residual = 0
    /\ message = NoMessage
    /\ levelNumber = 0
    /\ slot = 0
    /\ playerNumber = 0
    /\ committed = << >>
    /\ bogowinCall = NoBogowinCall
    /\ entryIterations = 0
    /\ lastOp = "none"
    /\ onlySimulated = FALSE
    /\ includedSetKept = FALSE
    /\ m_logfile = ""
    /\ m_logfileIsOpen = FALSE
    /\ m_hasHeader = FALSE
    /\ logText = << >>

\* ------------------------------------------------------------- logging

\* The names a log file is given; the empty name stands for no file.
LogfileNames == {"", "sim.xml"}

\* The log never grows beyond MaxLogLength tags: a simulate call that
\* could write more is not taken.
MaxLogLength == 6

\* The logging members and the file's text, taken together.
Log == [isOpen |-> m_logfileIsOpen, hasHeader |-> m_hasHeader, text |-> logText]

SetLog(l) ==
    /\ m_logfileIsOpen' = l.isOpen
    /\ m_hasHeader' = l.hasHeader
    /\ logText' = l.text

\* Simulator::isLogging
IsLogging(l) == l.isOpen

\* Simulator::writeLogHeader
WriteLogHeader(l) ==
    IF IsLogging(l)
        THEN [l EXCEPT !.text = Append(@, "<simulation>"), !.hasHeader = TRUE]
        ELSE l

\* Simulator::writeLogFooter
WriteLogFooter(l) ==
    IF IsLogging(l)
        THEN [l EXCEPT !.text = Append(@, "</simulation>"), !.hasHeader = FALSE]
        ELSE l

\* Simulator::closeLogfile, on the logging members
CloseLogfileOf(l) ==
    IF IsLogging(l)
        THEN [(IF l.hasHeader THEN WriteLogFooter(l) ELSE l) EXCEPT !.isOpen = FALSE]
        ELSE l

\* The logging at the head of simulate(plies): the header if none is
\* written, then the opening tag of the iteration.
LogIterationOpen(l) ==
    IF IsLogging(l)
        THEN LET headed == IF ~l.hasHeader THEN WriteLogHeader(l) ELSE l
             IN  [headed EXCEPT !.text = Append(@, "<iteration>")]
        ELSE l

\* The logging at the end of simulate(plies).
LogIterationClose(l) ==
    IF IsLogging(l)
        THEN [l EXCEPT !.text = Append(@, "</iteration>")]
        ELSE l

LogRoomFor(iterations) ==
    IsLogging(Log) => Len(logText) + 2 * iterations + 2 <= MaxLogLength

\* ------------------------------------------------------ facade operations

\* Simulator::resetNumbers over a simmed-move list.
ResetNumbersOf(sms) == [i \in DOMAIN sms |-> SimmedMoveClear(sms[i])]

\* The loop of setPosition: one SimmedMove per move of the position.
RECURSIVE BuildSimmedMoves(_, _)
BuildSimmedMoves(moves, counter) ==
    IF moves = << >> THEN << >>
    ELSE << NewSimmedMove(Head(moves), counter + 1) >>
         \o BuildSimmedMoves(Tail(moves), counter + 1)

\* Simulator::setPosition
SetPosition(moves, numPlayers, gameOver) ==
    /\ pc = "idle"
    /\ lastOp' = "setPosition"
    /\ onlySimulated' = TRUE
    /\ includedSetKept' = TRUE
    /\ objectIdCounter + Len(moves) <= MaxId
    /\ originalGame' = NewPosition(numPlayers, gameOver)
    /\ consideredMoves' = << >>
    /\ simmedMoves' = ResetNumbersOf(BuildSimmedMoves(moves, objectIdCounter))
    /\ objectIdCounter' = objectIdCounter + Len(moves)
    /\ m_iterations' = 0
    /\ SetLog(IF HasSimulationResults(m_iterations) THEN WriteLogFooter(Log) ELSE Log)
    /\ UNCHANGED << m_dispatch, m_ignoreOppos, pc, m_logfile >>
    /\ UNCHANGED << callVars, iterationVars, rolloutVars >>

\* Simulator::setLogfile; opens is whether the file could be opened.
SetLogfile(logfile, append, opens) ==
    /\ pc = "idle"
    /\ lastOp' = "setLogfile"
    /\ onlySimulated' = FALSE
    /\ UNCHANGED includedSetKept
    /\ IF m_logfile = logfile /\ IsLogging(Log)
           THEN UNCHANGED logVars
           ELSE LET closed == CloseLogfileOf(Log)
                IN  /\ m_logfile' = logfile
                    /\ IF logfile = ""
                           THEN SetLog(closed)
                           ELSE SetLog([isOpen |-> opens,
                                        hasHeader |-> FALSE,
                                        text |-> IF opens /\ ~append
                                                     THEN << >>
                                                     ELSE closed.text])
    /\ UNCHANGED << pc, facadeVars, callVars, iterationVars, rolloutVars >>

\* Simulator::closeLogfile
CloseLogfile ==
    /\ pc = "idle"
    /\ lastOp' = "closeLogfile"
    /\ onlySimulated' = FALSE
    /\ UNCHANGED includedSetKept
    /\ SetLog(CloseLogfileOf(Log))
    /\ UNCHANGED << pc, m_logfile, facadeVars, callVars, iterationVars, rolloutVars >>

\* Simulator::setDispatch
SetDispatch(dispatch) ==
    /\ pc = "idle"
    /\ UNCHANGED logVars
    /\ lastOp' = "setDispatch"
    /\ UNCHANGED << onlySimulated, includedSetKept >>
    /\ m_dispatch' = dispatch
    /\ UNCHANGED << simmedMoves, consideredMoves, m_iterations, objectIdCounter,
                    originalGame, m_ignoreOppos, pc >>
    /\ UNCHANGED << callVars, iterationVars, rolloutVars >>

\* Simulator::setIgnoreOppos
SetIgnoreOppos(ignore) ==
    /\ pc = "idle"
    /\ UNCHANGED logVars
    /\ lastOp' = "setIgnoreOppos"
    /\ UNCHANGED << onlySimulated, includedSetKept >>
    /\ m_ignoreOppos' = ignore
    /\ UNCHANGED << simmedMoves, consideredMoves, m_iterations, objectIdCounter,
                    originalGame, m_dispatch, pc >>
    /\ UNCHANGED << callVars, iterationVars, rolloutVars >>

\* Simulator::setIncludedMoves
SetIncludedMoves(moves) ==
    /\ pc = "idle"
    /\ UNCHANGED logVars
    /\ lastOp' = "setIncludedMoves"
    /\ onlySimulated' = FALSE
    /\ includedSetKept' = FALSE
    /\ LET r == SetIncludedMovesOf(simmedMoves, objectIdCounter, moves)
       IN  /\ r.counter <= MaxId
           /\ simmedMoves' = r.simmed
           /\ objectIdCounter' = r.counter
    /\ UNCHANGED << consideredMoves, m_iterations, originalGame, m_dispatch,
                    m_ignoreOppos, pc >>
    /\ UNCHANGED << callVars, iterationVars, rolloutVars >>

\* Simulator::makeSureConsideredMovesAreIncluded
MakeSureConsideredMovesAreIncluded ==
    /\ pc = "idle"
    /\ UNCHANGED logVars
    /\ lastOp' = IF lastOp = "pruneTo" THEN "pruneTo, makeSureConsideredMovesAreIncluded"
                                      ELSE "makeSureConsideredMovesAreIncluded"
    /\ onlySimulated' = FALSE
    /\ includedSetKept' = FALSE
    /\ LET movesSuperset ==
               MovesSuperset(MoveIds(MovesOf(simmedMoves, m_iterations, TRUE, TRUE)),
                             consideredMoves)
           r == SetIncludedMovesOf(simmedMoves, objectIdCounter, movesSuperset)
       IN  /\ r.counter <= MaxId
           /\ simmedMoves' = r.simmed
           /\ objectIdCounter' = r.counter
    /\ UNCHANGED << consideredMoves, m_iterations, originalGame, m_dispatch,
                    m_ignoreOppos, pc >>
    /\ UNCHANGED << callVars, iterationVars, rolloutVars >>

\* Simulator::addConsideredMove
AddConsideredMove(move) ==
    /\ pc = "idle"
    /\ UNCHANGED logVars
    /\ lastOp' = "addConsideredMove"
    /\ UNCHANGED << onlySimulated, includedSetKept >>
    /\ Len(consideredMoves) < MaxConsidered
    /\ consideredMoves' = Append(consideredMoves, move)
    /\ UNCHANGED << simmedMoves, m_iterations, objectIdCounter, originalGame,
                    m_dispatch, m_ignoreOppos, pc >>
    /\ UNCHANGED << callVars, iterationVars, rolloutVars >>

\* The equity thresholds and move counts handed to pruneTo, the thresholds
\* in whole points.
PruneThresholds == {0, 2}
PruneCounts == 0 .. NumMoves

\* What pruneTo reads as equityMoves[0].equity: the best equity, or, with
\* no move included, whatever lies past the end of an empty list.
FirstEquities(equityMoves) ==
    IF equityMoves # << >> THEN {equityMoves[1].equity}
    ELSE {0, 2 * AvgScale * Equity(1)}

\* A faulty pruneTo: its loop does not stop at maxNumberOfMoves.
PruneToOfUncounted(sms, counter, iterations, equityThreshold, maxNumberOfMoves, first) ==
    LET equityMoves == MovesOf(sms, iterations, TRUE, FALSE)
        absoluteEquityThreshold == first - 2 * AvgScale * equityThreshold
        toSetIncluded ==
            PruneLoop(equityMoves, 0, Len(equityMoves), absoluteEquityThreshold)
    IN  SetIncludedMovesOf(sms, counter, MoveIds(toSetIncluded))

\* Simulator::pruneTo over a simmed-move list, `first` being what it reads
\* as equityMoves[0].equity.
PruneToOf(sms, counter, iterations, equityThreshold, maxNumberOfMoves, first) ==
    LET equityMoves == MovesOf(sms, iterations, TRUE, FALSE)
        absoluteEquityThreshold == first - 2 * AvgScale * equityThreshold
        toSetIncluded ==
            PruneLoop(equityMoves, 0, maxNumberOfMoves, absoluteEquityThreshold)
    IN  SetIncludedMovesOf(sms, counter, MoveIds(toSetIncluded))

\* Simulator::pruneTo
PruneTo(equityThreshold, maxNumberOfMoves) ==
    /\ pc = "idle"
    /\ UNCHANGED logVars
    /\ lastOp' = "pruneTo"
    /\ onlySimulated' = FALSE
    /\ includedSetKept' = FALSE
    /\ \E first \in FirstEquities(MovesOf(simmedMoves, m_iterations, TRUE, FALSE)) :
           LET r == PruneToOf(simmedMoves, objectIdCounter, m_iterations,
                              equityThreshold, maxNumberOfMoves, first)
           IN  /\ simmedMoves' = r.simmed
               /\ objectIdCounter' = r.counter
    /\ UNCHANGED << consideredMoves, m_iterations, originalGame, m_dispatch,
                    m_ignoreOppos, pc >>
    /\ UNCHANGED << callVars, iterationVars, rolloutVars >>

\* Simulator::resetNumbers
ResetNumbers ==
    /\ pc = "idle"
    /\ UNCHANGED logVars
    /\ lastOp' = "resetNumbers"
    /\ onlySimulated' = FALSE
    /\ UNCHANGED includedSetKept
    /\ simmedMoves' = ResetNumbersOf(simmedMoves)
    /\ m_iterations' = 0
    /\ UNCHANGED << consideredMoves, objectIdCounter, originalGame, m_dispatch,
                    m_ignoreOppos, pc >>
    /\ UNCHANGED << callVars, iterationVars, rolloutVars >>

\* ----------------------------------------------- simulate(plies, iterations)

ResetCall ==
    /\ callKind' = "none"
    /\ callPlies' = 0
    /\ callIterations' = 0
    /\ callI' = 0
    /\ polls' = 0
    /\ abortSeen' = FALSE
    /\ entryIterations' = 0

ResetIteration ==
    /\ plies' = 0
    /\ cursor' = 0

ResetRollout ==
    /\ m_simulatedGame' = NoPosition
    /\ residual' = 0
    /\ message' = NoMessage
    /\ levelNumber' = 0
    /\ slot' = 0
    /\ playerNumber' = 0
    /\ committed' = << >>
    /\ bogowinCall' = NoBogowinCall

\* No accumulator takes more than MaxCount values: a call that could add
\* more is not taken.
RoomFor(iterations) ==
    /\ m_iterations + iterations <= MaxCount
    /\ \A i \in DOMAIN simmedMoves : simmedMoves[i].wins.n + iterations <= MaxCount

\* The depth simulate(plies) works with: 1000 for a negative argument,
\* then one more for the candidate's ply.
EffectivePlies(p) == (IF p < 0 THEN 1000 ELSE p) + 1

\* The locals decimalTurns and levels of simulate(plies).
DecimalTurns == plies % originalGame.numPlayers
Levels == (plies - DecimalTurns) \div originalGame.numPlayers

\* The head of simulate(plies): the iteration is counted, the hidden state
\* is drawn anew on the original game, and the depth is fixed.
BeginIteration(p, hidden) ==
    /\ m_iterations' = m_iterations + 1
    /\ originalGame' = [originalGame EXCEPT !.hidden = hidden]
    /\ plies' = EffectivePlies(p)
    /\ SetLog(LogIterationOpen(Log))
    /\ UNCHANGED m_logfile
    /\ cursor' = 1

\* A call simulate(plies, iterations) starts: i = 0.
Simulate(p, iterations) ==
    /\ pc = "idle"
    /\ UNCHANGED logVars
    /\ lastOp' = "simulate"
    /\ UNCHANGED << onlySimulated, includedSetKept >>
    /\ entryIterations' = m_iterations
    /\ originalGame.numPlayers > 0
    /\ RoomFor(iterations)
    /\ LogRoomFor(iterations)
    /\ pc' = "poll"
    /\ callKind' = "loop"
    /\ callPlies' = p
    /\ callIterations' = iterations
    /\ callI' = 0
    /\ UNCHANGED << polls, abortSeen >>
    /\ UNCHANGED << facadeVars, iterationVars, rolloutVars >>

\* A call simulate(plies) starts.
SimulateOnce(p, hidden) ==
    /\ pc = "idle"
    /\ lastOp' = "simulate"
    /\ UNCHANGED << onlySimulated, includedSetKept >>
    /\ entryIterations' = m_iterations
    /\ originalGame.numPlayers > 0
    /\ RoomFor(1)
    /\ LogRoomFor(1)
    /\ BeginIteration(p, hidden)
    /\ pc' = "move"
    /\ callKind' = "single"
    /\ callPlies' = p
    /\ callIterations' = 1
    /\ UNCHANGED << callI, polls, abortSeen >>
    /\ UNCHANGED << simmedMoves, consideredMoves, objectIdCounter, m_dispatch,
                    m_ignoreOppos >>
    /\ UNCHANGED rolloutVars

\* i < iterations fails: the loop of simulate(plies, iterations) is left.
LoopExit ==
    /\ pc = "poll"
    /\ UNCHANGED logVars
    /\ UNCHANGED historyVars
    /\ ~(callI < callIterations)
    /\ pc' = "return"
    /\ UNCHANGED << facadeVars, callVars, iterationVars, rolloutVars >>

\* A faulty abort: the iteration is counted before the break.
PollAbortCounting ==
    /\ pc = "poll"
    /\ UNCHANGED logVars
    /\ UNCHANGED historyVars
    /\ callI < callIterations
    /\ m_dispatch
    /\ polls' = polls + 1
    /\ abortSeen' = TRUE
    /\ pc' = "return"
    /\ m_iterations' = m_iterations + 1
    /\ UNCHANGED << callKind, callPlies, callIterations, callI, entryIterations >>
    /\ UNCHANGED << simmedMoves, consideredMoves, objectIdCounter, originalGame,
                    m_dispatch, m_ignoreOppos >>
    /\ UNCHANGED << iterationVars, rolloutVars >>

\* m_dispatch && m_dispatch->shouldAbort() holds: break.
PollAbort ==
    /\ pc = "poll"
    /\ UNCHANGED logVars
    /\ UNCHANGED historyVars
    /\ callI < callIterations
    /\ m_dispatch
    /\ polls' = polls + 1
    /\ abortSeen' = TRUE
    /\ pc' = "return"
    /\ UNCHANGED << callKind, callPlies, callIterations, callI, entryIterations >>
    /\ UNCHANGED << facadeVars, iterationVars, rolloutVars >>

\* No dispatch, or shouldAbort() answers false: simulate(plies) is called.
PollContinue(hidden) ==
    /\ pc = "poll"
    /\ UNCHANGED historyVars
    /\ callI < callIterations
    /\ polls' = IF m_dispatch THEN polls + 1 ELSE polls
    /\ BeginIteration(callPlies, hidden)
    /\ pc' = "move"
    /\ UNCHANGED << callKind, callPlies, callIterations, callI, abortSeen,
                    entryIterations >>
    /\ UNCHANGED << simmedMoves, consideredMoves, objectIdCounter, m_dispatch,
                    m_ignoreOppos >>
    /\ UNCHANGED rolloutVars

\* The call returns to its caller.
Return ==
    /\ pc = "return"
    /\ UNCHANGED logVars
    /\ UNCHANGED historyVars
    /\ pc' = "idle"
    /\ ResetCall
    /\ ResetIteration
    /\ ResetRollout
    /\ UNCHANGED facadeVars

\* ------------------------------------------------------- simulate(plies)

\* The positions at or after the cursor of the moves still to roll out.
IncludedFrom(k) ==
    {i \in DOMAIN simmedMoves : i >= k /\ simmedMoves[i].includeInSimulation}

Min(S) == CHOOSE x \in S : \A y \in S : x <= y

\* A faulty rollout head: the game is cloned for the first rollout of a
\* call only, later rollouts go on where the one before stopped.
RolloutBeginClonedOnce ==
    /\ pc = "move"
    /\ UNCHANGED logVars
    /\ UNCHANGED historyVars
    /\ IncludedFrom(cursor) # {}
    /\ LET k == Min(IncludedFrom(cursor))
           grown == SetNumberLevels(simmedMoves[k].levels, Levels + 1)
       IN  /\ cursor' = k
           /\ m_simulatedGame' = IF m_simulatedGame = NoPosition
                                      THEN originalGame ELSE m_simulatedGame
           /\ residual' = 0
           /\ simmedMoves' = [simmedMoves EXCEPT ![k].levels = grown]
           /\ message' = [NoMessage EXCEPT !.id = simmedMoves[k].id,
                                           !.levels = grown]
           /\ levelNumber' = 1
    /\ committed' = << >>
    /\ bogowinCall' = NoBogowinCall
    /\ pc' = "level"
    /\ UNCHANGED << consideredMoves, m_iterations, objectIdCounter, originalGame,
                    m_dispatch, m_ignoreOppos, plies, slot, playerNumber >>
    /\ UNCHANGED callVars

\* The loop over m_simmedMoves reaches the next included move: the game is
\* cloned and the message prepared.
RolloutBegin ==
    /\ pc = "move"
    /\ UNCHANGED logVars
    /\ UNCHANGED historyVars
    /\ IncludedFrom(cursor) # {}
    /\ LET k == Min(IncludedFrom(cursor))
           grown == SetNumberLevels(simmedMoves[k].levels, Levels + 1)
       IN  /\ cursor' = k
           /\ m_simulatedGame' = originalGame
           /\ residual' = 0
           /\ simmedMoves' = [simmedMoves EXCEPT ![k].levels = grown]
           /\ message' = [NoMessage EXCEPT !.id = simmedMoves[k].id,
                                           !.levels = grown]
           /\ levelNumber' = 1
    /\ committed' = << >>
    /\ bogowinCall' = NoBogowinCall
    /\ pc' = "level"
    /\ UNCHANGED << consideredMoves, m_iterations, objectIdCounter, originalGame,
                    m_dispatch, m_ignoreOppos, plies, slot, playerNumber >>
    /\ UNCHANGED callVars

\* The loop over m_simmedMoves ends, and simulate(plies) with it.
IterationEnd ==
    /\ pc = "move"
    /\ UNCHANGED historyVars
    /\ IncludedFrom(cursor) = {}
    /\ SetLog(LogIterationClose(Log))
    /\ UNCHANGED m_logfile
    /\ IF callKind = "single"
           THEN pc' = "return" /\ callI' = callI
           ELSE pc' = "poll" /\ callI' = callI + 1
    /\ UNCHANGED << callKind, callPlies, callIterations, polls, abortSeen,
                    entryIterations >>
    /\ UNCHANGED << facadeVars, iterationVars, rolloutVars >>

\* The condition of the loop over the message's levels.
LevelLoopRuns ==
    /\ levelNumber <= Levels + 1
    /\ levelNumber <= Len(message.levels)
    /\ ~m_simulatedGame.gameOver

\* The local decimal of a level.
Decimal == IF levelNumber = Levels + 1 THEN DecimalTurns ELSE originalGame.numPlayers

\* The loop over the levels ends.
LevelLoopExit ==
    /\ pc = "level"
    /\ UNCHANGED logVars
    /\ UNCHANGED historyVars
    /\ ~LevelLoopRuns
    /\ pc' = "message"
    /\ UNCHANGED << facadeVars, callVars, iterationVars, rolloutVars >>

\* decimal == 0: continue with the next level.
LevelSkip ==
    /\ pc = "level"
    /\ UNCHANGED logVars
    /\ UNCHANGED historyVars
    /\ LevelLoopRuns
    /\ Decimal = 0
    /\ levelNumber' = levelNumber + 1
    /\ UNCHANGED << m_simulatedGame, residual, message, slot, playerNumber, pc,
                    committed, bogowinCall >>
    /\ UNCHANGED << facadeVars, callVars, iterationVars >>

\* A level is entered: its statistics are sized and playerNumber set to 1.
LevelEnter ==
    /\ pc = "level"
    /\ UNCHANGED logVars
    /\ UNCHANGED historyVars
    /\ LevelLoopRuns
    /\ Decimal # 0
    /\ message' = [message EXCEPT !.levels[levelNumber] = SetNumberScores(@, Decimal)]
    /\ playerNumber' = 1
    /\ slot' = 1
    /\ pc' = "ply"
    /\ UNCHANGED << m_simulatedGame, residual, levelNumber, committed, bogowinCall >>
    /\ UNCHANGED << facadeVars, callVars, iterationVars >>

\* The loop over the level's statistics ends, at the end of the list or
\* because the game is over.
PlyLoopExit ==
    /\ pc = "ply"
    /\ UNCHANGED logVars
    /\ UNCHANGED historyVars
    /\ \/ slot > Len(message.levels[levelNumber])
       \/ m_simulatedGame.gameOver
    /\ levelNumber' = levelNumber + 1
    /\ pc' = "level"
    /\ UNCHANGED << m_simulatedGame, residual, message, slot, playerNumber,
                    committed, bogowinCall >>
    /\ UNCHANGED << facadeVars, callVars, iterationVars >>

\* The move a ply plays.
ChosenMove(playerId) ==
    IF playerId = 0 /\ levelNumber = 1
        THEN CandidateMove(simmedMoves[cursor].move)
    ELSE IF m_ignoreOppos /\ playerId # 0
        THEN PassMove
    ELSE StaticBestMove(m_simulatedGame)

IsFinalTurnForPlayerOfSimulation(number) ==
    IF levelNumber = Levels THEN number > DecimalTurns
    ELSE IF levelNumber = Levels + 1 THEN number <= DecimalTurns
    ELSE FALSE

IsVeryFinalTurnOfSimulation(number) ==
    \/ (DecimalTurns = 0 /\ levelNumber = Levels
            /\ number = originalGame.numPlayers)
    \/ (levelNumber = Levels + 1 /\ number = DecimalTurns)

\* A faulty residual: ignoreOppos is not looked at.
ResidualAddendOfEveryPlayer(playerId, move, number) ==
    IF IsFinalTurnForPlayerOfSimulation(number)
        THEN LET addend ==
                     CalculatePlayerConsideration(m_simulatedGame, move)
                     + (IF IsVeryFinalTurnOfSimulation(number)
                            THEN CalculateSharedConsideration(m_simulatedGame, move)
                            ELSE 0)
             IN  IF playerId = 0 THEN addend ELSE 0 - addend
        ELSE 0

\* What a ply adds to the residual, in half units.
ResidualAddend(playerId, move, number) ==
    IF IsFinalTurnForPlayerOfSimulation(number)
            /\ ~(m_ignoreOppos /\ playerId # 0)
        THEN LET addend ==
                     CalculatePlayerConsideration(m_simulatedGame, move)
                     + (IF IsVeryFinalTurnOfSimulation(number)
                            THEN CalculateSharedConsideration(m_simulatedGame, move)
                            ELSE 0)
             IN  IF playerId = 0 THEN addend ELSE 0 - addend
        ELSE 0

\* A faulty ply: the deadwood is not taken off the score before the commit.
PlyCommittingDeadwood ==
    /\ pc = "ply"
    /\ UNCHANGED logVars
    /\ UNCHANGED historyVars
    /\ slot <= Len(message.levels[levelNumber])
    /\ ~m_simulatedGame.gameOver
    /\ LET number == playerNumber + 1
           playerId == m_simulatedGame.currentPlayer
           chosen == ChosenMove(playerId)
           deadwoodScore == IF DoesMoveEndGame(m_simulatedGame, chosen)
                                THEN Deadwood(m_simulatedGame) ELSE 0
           move == [chosen EXCEPT !.score = @ + deadwoodScore]
           scoresIt == message.levels[levelNumber][slot]
       IN  /\ playerNumber' = number
           /\ message' = [message EXCEPT !.levels[levelNumber][slot] =
                  [score |-> IncorporateValue(scoresIt.score, move.score),
                   bingos |-> IncorporateValue(scoresIt.bingos,
                                               IF move.isBingo THEN 1 ELSE 0)]]
           /\ residual' = residual + ResidualAddend(playerId, move, number)
           /\ m_simulatedGame' =
                  CommitCandidate(m_simulatedGame,
                                  move,
                                  ~IsVeryFinalTurnOfSimulation(number))
           /\ committed' = Append(committed,
                  [playerId |-> playerId,
                   levelNumber |-> levelNumber,
                   slot |-> slot,
                   chosen |-> chosen,
                   endsGame |-> DoesMoveEndGame(m_simulatedGame, chosen),
                   recorded |-> move.score,
                   score |-> move.score,
                   maintainBoard |-> ~IsVeryFinalTurnOfSimulation(number),
                   playerConsideration |->
                       (IsFinalTurnForPlayerOfSimulation(number)
                            /\ ~(m_ignoreOppos /\ playerId # 0)),
                   sharedConsideration |->
                       (IsFinalTurnForPlayerOfSimulation(number)
                            /\ ~(m_ignoreOppos /\ playerId # 0)
                            /\ IsVeryFinalTurnOfSimulation(number)),
                   residualAddend |-> ResidualAddend(playerId, move, number)])
    /\ slot' = slot + 1
    /\ UNCHANGED << levelNumber, pc, bogowinCall >>
    /\ UNCHANGED << facadeVars, callVars, iterationVars >>

\* One ply: the body of the loop over the level's statistics.
Ply ==
    /\ pc = "ply"
    /\ UNCHANGED logVars
    /\ UNCHANGED historyVars
    /\ slot <= Len(message.levels[levelNumber])
    /\ ~m_simulatedGame.gameOver
    /\ LET number == playerNumber + 1
           playerId == m_simulatedGame.currentPlayer
           chosen == ChosenMove(playerId)
           deadwoodScore == IF DoesMoveEndGame(m_simulatedGame, chosen)
                                THEN Deadwood(m_simulatedGame) ELSE 0
           move == [chosen EXCEPT !.score = @ + deadwoodScore]
           scoresIt == message.levels[levelNumber][slot]
       IN  /\ playerNumber' = number
           /\ message' = [message EXCEPT !.levels[levelNumber][slot] =
                  [score |-> IncorporateValue(scoresIt.score, move.score),
                   bingos |-> IncorporateValue(scoresIt.bingos,
                                               IF move.isBingo THEN 1 ELSE 0)]]
           /\ residual' = residual + ResidualAddend(playerId, move, number)
           /\ m_simulatedGame' =
                  CommitCandidate(m_simulatedGame,
                                  [move EXCEPT !.score = @ - deadwoodScore],
                                  ~IsVeryFinalTurnOfSimulation(number))
           /\ committed' = Append(committed,
                  [playerId |-> playerId,
                   levelNumber |-> levelNumber,
                   slot |-> slot,
                   chosen |-> chosen,
                   endsGame |-> DoesMoveEndGame(m_simulatedGame, chosen),
                   recorded |-> move.score,
                   score |-> move.score - deadwoodScore,
                   maintainBoard |-> ~IsVeryFinalTurnOfSimulation(number),
                   playerConsideration |->
                       (IsFinalTurnForPlayerOfSimulation(number)
                            /\ ~(m_ignoreOppos /\ playerId # 0)),
                   sharedConsideration |->
                       (IsFinalTurnForPlayerOfSimulation(number)
                            /\ ~(m_ignoreOppos /\ playerId # 0)
                            /\ IsVeryFinalTurnOfSimulation(number)),
                   residualAddend |-> ResidualAddend(playerId, move, number)])
    /\ slot' = slot + 1
    /\ UNCHANGED << levelNumber, pc, bogowinCall >>
    /\ UNCHANGED << facadeVars, callVars, iterationVars >>

\* A faulty win value: a finished game that is tied counts as lost.
MessageWinsTieLost(g, spread) ==
    IF g.gameOver
        THEN (IF spread > 0 THEN 2 ELSE 0)
    ELSE IF g.currentPlayer = 0
        THEN Bogowin(IntCast(2 * spread + residual))
    ELSE 2 - Bogowin(IntCast(0 - 2 * spread - residual))

\* The win value of a rollout, in half units.
MessageWins(g, spread) ==
    IF g.gameOver
        THEN (IF spread > 0 THEN 2 ELSE IF spread = 0 THEN 1 ELSE 0)
    ELSE IF g.currentPlayer = 0
        THEN Bogowin(IntCast(2 * spread + residual))
    ELSE 2 - Bogowin(IntCast(0 - 2 * spread - residual))

\* After the loops: residual, spread and win value go into the message.
BuildMessage ==
    /\ pc = "message"
    /\ UNCHANGED logVars
    /\ UNCHANGED historyVars
    /\ LET spread == Spread(m_simulatedGame)
       IN  /\ message' = [message EXCEPT !.residual = residual,
                                         !.gameSpread = spread,
                                         !.bogowin = ~m_simulatedGame.gameOver,
                                         !.wins = MessageWins(m_simulatedGame, spread)]
           /\ bogowinCall' =
                  IF m_simulatedGame.gameOver THEN NoBogowinCall
                  ELSE [made |-> TRUE,
                        spread |-> IF m_simulatedGame.currentPlayer = 0
                                       THEN IntCast(2 * spread + residual)
                                       ELSE IntCast(0 - 2 * spread - residual),
                        resource |-> m_simulatedGame.bagSize + RackSize]
    /\ pc' = "incorporate"
    /\ UNCHANGED << m_simulatedGame, residual, levelNumber, slot, playerNumber,
                    committed >>
    /\ UNCHANGED << facadeVars, callVars, iterationVars >>

\* A faulty incorporateMessage: the residual is not incorporated.
IncorporateMessageOfWithoutResidual(sms, msg) ==
    IF \E i \in DOMAIN sms : sms[i].id = msg.id
        THEN LET k == Min({i \in DOMAIN sms : sms[i].id = msg.id})
             IN  [sms EXCEPT ![k] =
                     [@ EXCEPT !.levels = msg.levels,
                               !.gameSpread = IncorporateValue(@, msg.gameSpread),
                               !.wins = IncorporateValue(@, msg.wins)]]
        ELSE sms

\* A faulty incorporateMessage: the message is folded into the move at the
\* head of the list, whatever its id.
IncorporateMessageOfIntoFirst(sms, msg) ==
    IF sms # << >>
        THEN [sms EXCEPT ![1] =
                 [@ EXCEPT !.levels = msg.levels,
                           !.residual = IncorporateValue(@, msg.residual),
                           !.gameSpread = IncorporateValue(@, msg.gameSpread),
                           !.wins = IncorporateValue(@, msg.wins)]]
        ELSE sms

\* Simulator::incorporateMessage over a simmed-move list.
IncorporateMessageOf(sms, msg) ==
    IF \E i \in DOMAIN sms : sms[i].id = msg.id
        THEN LET k == Min({i \in DOMAIN sms : sms[i].id = msg.id})
             IN  [sms EXCEPT ![k] =
                     [@ EXCEPT !.levels = msg.levels,
                               !.residual = IncorporateValue(@, msg.residual),
                               !.gameSpread = IncorporateValue(@, msg.gameSpread),
                               !.wins = IncorporateValue(@, msg.wins)]]
        ELSE sms

\* incorporateMessage(message), and the loop over m_simmedMoves moves on.
IncorporateMessage ==
    /\ pc = "incorporate"
    /\ UNCHANGED logVars
    /\ UNCHANGED historyVars
    /\ simmedMoves' = IncorporateMessageOf(simmedMoves, message)
    /\ cursor' = cursor + 1
    /\ pc' = "move"
    /\ UNCHANGED << consideredMoves, m_iterations, objectIdCounter, originalGame,
                    m_dispatch, m_ignoreOppos, plies >>
    /\ UNCHANGED << callVars, rolloutVars >>

\* ------------------------------------------------------------------ Next

PliesArguments == 0 .. MaxPlies
IterationsArguments == 0 .. MaxCount
IncludedMoveLists == SeqsUpTo(Moves, NumMoves)

\* The steps inside a running simulate call.
RolloutStep ==
    \/ LoopExit
    \/ Return
    \/ RolloutBegin
    \/ IterationEnd
    \/ LevelLoopExit
    \/ LevelSkip
    \/ LevelEnter
    \/ PlyLoopExit
    \/ Ply
    \/ BuildMessage
    \/ IncorporateMessage

\* The facade at work: every operation on the move lists of a position
\* whose game is not over, with calls simulate(plies, 1) of depth 0 and 1
\* whose rollouts either end the game on the second turn or do not end it.
FacadePlies == {0, 1}
FacadeHidden == {h \in Hidden : h.endTurn \in {2, MaxPlies + 2}}

Next ==
    \/ \E moves \in PositionMoveLists, numPlayers \in 2 .. MaxPlayers :
          SetPosition(moves, numPlayers, FALSE)
    \/ \E moves \in IncludedMoveLists : SetIncludedMoves(moves)
    \/ MakeSureConsideredMovesAreIncluded
    \/ \E move \in Moves : AddConsideredMove(move)
    \/ \E equityThreshold \in PruneThresholds, maxNumberOfMoves \in PruneCounts :
          PruneTo(equityThreshold, maxNumberOfMoves)
    \/ ResetNumbers
    \/ \E p \in FacadePlies : Simulate(p, 1)
    \/ \E hidden \in FacadeHidden : PollContinue(hidden)
    \/ RolloutStep

Spec == Init /\ [][Next]_vars

\* The rollouts at work: simulate calls of every depth over every hidden
\* state, with and without an abort dispatch, on the moves of the position.
NextRollout ==
    \/ \E moves \in PositionMoveLists, numPlayers \in 2 .. MaxPlayers,
          gameOver \in BOOLEAN : SetPosition(moves, numPlayers, gameOver)
    \/ \E dispatch \in BOOLEAN : SetDispatch(dispatch)
    \/ \E ignore \in BOOLEAN : SetIgnoreOppos(ignore)
    \/ ResetNumbers
    \/ \E p \in PliesArguments, iterations \in IterationsArguments :
          Simulate(p, iterations)
    \/ \E p \in PliesArguments, hidden \in Hidden : SimulateOnce(p, hidden)
    \/ \E hidden \in Hidden : PollContinue(hidden)
    \/ PollAbort
    \/ RolloutStep

SpecRollout == Init /\ [][NextRollout]_vars

\* The candidates of the logged positions.
LoggedMoves == << 1 >>

\* Logging at work: the log file is set, reopened and closed between
\* simulate calls, position changes and resets.
NextLog ==
    \/ \E logfile \in LogfileNames, append \in BOOLEAN, opens \in BOOLEAN :
          SetLogfile(logfile, append, opens)
    \/ CloseLogfile
    \/ SetPosition(LoggedMoves, MaxPlayers, FALSE)
    \/ ResetNumbers
    \/ \E p \in FacadePlies : Simulate(p, 1)
    \/ PollContinue(InitialHidden)
    \/ RolloutStep

SpecLog == Init /\ [][NextLog]_vars

\* ---------------------------------------------------------------- claims

IncludedSet(sms) == {i \in DOMAIN sms : sms[i].includeInSimulation}

\* The equity moves() gives a simmed move: calculated once an iteration
\* has run, static before.
EquityOf(sm) ==
    IF HasSimulationResults(m_iterations)
        THEN CalculateEquityScaled(sm)
        ELSE 2 * AvgScale * Equity(sm.move)

Emptied(av) == av.sum = 0 /\ av.n = 0

InRollout == pc \in {"level", "ply", "message", "incorporate"}

InIteration == pc = "move" \/ InRollout

C2_ResetZeroesEverything ==
    lastOp = "resetNumbers" =>
        /\ m_iterations = 0
        /\ \A i \in DOMAIN simmedMoves :
               /\ simmedMoves[i].levels = << >>
               /\ Emptied(simmedMoves[i].wins)
               /\ Emptied(simmedMoves[i].residual)
               /\ Emptied(simmedMoves[i].gameSpread)

\* The steps that run setIncludedMoves: the call itself, pruneTo and
\* makeSureConsideredMovesAreIncluded.
RunsSetIncludedMoves ==
    lastOp' \in {"setIncludedMoves", "pruneTo",
                 "makeSureConsideredMovesAreIncluded",
                 "pruneTo, makeSureConsideredMovesAreIncluded"}

\* C3: setIncludedMoves (called directly, or by pruneTo or
\* makeSureConsideredMovesAreIncluded) keeps every simmed move it finds,
\* with its move, id, levels, wins, residual and gameSpread; it changes
\* nothing but include flags and appends.
C3_SetIncludedMovesKeepsAccumulators ==
    [][RunsSetIncludedMoves =>
          /\ Len(simmedMoves') >= Len(simmedMoves)
          /\ \A i \in DOMAIN simmedMoves :
                 [simmedMoves'[i] EXCEPT !.includeInSimulation =
                      simmedMoves[i].includeInSimulation] = simmedMoves[i]]_vars

C3_Witness ==
    /\ lastOp = "setIncludedMoves"
    /\ \E i \in DOMAIN simmedMoves :
           /\ ~simmedMoves[i].includeInSimulation
           /\ simmedMoves[i].wins.n >= 1
           /\ simmedMoves[i].levels # << >>
    /\ \E j \in IncludedSet(simmedMoves) : simmedMoves[j].wins.n = 0

Max(S) == CHOOSE x \in S : \A y \in S : x >= y

\* What C4 says of pruneTo(equityThreshold, maxNumberOfMoves) called with at
\* least one move included, `after` being the simmed moves it leaves.
PrunedAsClaimed(after, equityThreshold, maxNumberOfMoves) ==
    LET old == IncludedSet(simmedMoves)
        new == IncludedSet(after)
        best == Max({EquityOf(simmedMoves[i]) : i \in old})
        kept == IF Cardinality(old) < maxNumberOfMoves
                    THEN Cardinality(old) ELSE maxNumberOfMoves
    IN  /\ Len(after) = Len(simmedMoves)
        /\ new \subseteq old
        /\ Cardinality(new) <= maxNumberOfMoves
        /\ \E top \in SUBSET old :
               /\ Cardinality(top) = kept
               /\ \A a \in top, b \in old \ top :
                      EquityOf(simmedMoves[a]) >= EquityOf(simmedMoves[b])
               /\ new = {a \in top : EquityOf(simmedMoves[a])
                                       >= best - 2 * AvgScale * equityThreshold}

\* The spec's example: equities 40, 35, 33 and 20 under pruneTo(10, 3).
PruneExample ==
    LET list == << [move |-> 1, equity |-> 40, win |-> 0],
                   [move |-> 2, equity |-> 35, win |-> 0],
                   [move |-> 3, equity |-> 33, win |-> 0],
                   [move |-> 4, equity |-> 20, win |-> 0] >>
    IN  MoveIds(PruneLoop(SortMoveList(list, FALSE), 0, 3, 40 - 10)) = << 1, 2, 3 >>

\* C4: pruneTo(T, N) with a move included leaves included exactly the
\* moves that are among the N currently-included moves of highest equity
\* and whose equity is at least the best included equity minus T: a subset
\* of the included moves, of at most N moves.
C4_PruneToKeepsTheBest ==
    (pc = "idle" /\ IncludedSet(simmedMoves) # {}) =>
        /\ PruneExample
        /\ \A equityThreshold \in PruneThresholds, maxNumberOfMoves \in PruneCounts :
               PrunedAsClaimed(
                   PruneToOf(simmedMoves, objectIdCounter, m_iterations,
                             equityThreshold, maxNumberOfMoves,
                             MovesOf(simmedMoves, m_iterations, TRUE, FALSE)[1].equity).simmed,
                   equityThreshold, maxNumberOfMoves)

C4_Witness ==
    /\ lastOp = "pruneTo"
    /\ m_iterations >= 1
    /\ Len(simmedMoves) = 2
    /\ Cardinality(IncludedSet(simmedMoves)) = 1
    /\ \A i \in DOMAIN simmedMoves : simmedMoves[i].wins.n >= 1

ConsideredAreIncluded(sms) ==
    \A k \in DOMAIN consideredMoves :
        \E i \in IncludedSet(sms) : sms[i].move = consideredMoves[k]

\* C5: after pruneTo followed by makeSureConsideredMovesAreIncluded every
\* considered move is in simmedMoves and included, and every move pruneTo
\* left included is still included.
C5_ConsideredMovesSurvivePruning ==
    /\ [](lastOp = "pruneTo, makeSureConsideredMovesAreIncluded"
              => ConsideredAreIncluded(simmedMoves))
    /\ [][(lastOp = "pruneTo"
              /\ lastOp' = "pruneTo, makeSureConsideredMovesAreIncluded")
             => \A i \in IncludedSet(simmedMoves) :
                    /\ i \in IncludedSet(simmedMoves')
                    /\ simmedMoves'[i].move = simmedMoves[i].move]_vars

\* With static equities 1 and 4 and a threshold of at most 2, pruneTo drops
\* move 1 whenever move 2 is included.
C5_Witness ==
    /\ lastOp = "pruneTo, makeSureConsideredMovesAreIncluded"
    /\ m_iterations = 0
    /\ consideredMoves = << 1 >>
    /\ \E i \in IncludedSet(simmedMoves) : simmedMoves[i].move = 1
    /\ \E i \in IncludedSet(simmedMoves) : simmedMoves[i].move = 2

\* C6: simulate(plies, iterations) asks shouldAbort once before each
\* iteration, the first included, and never inside one; after an answer of
\* true no iteration runs in the call and the iteration counter and the
\* simmed moves stay as they were; with no dispatch, or no answer of true,
\* exactly `iterations` iterations run.
C6_AbortPolling ==
    /\ []((InIteration /\ callKind = "loop") =>
              /\ ~abortSeen
              /\ polls = (IF m_dispatch THEN callI + 1 ELSE 0)
              /\ m_iterations = entryIterations + callI + 1)
    /\ [](pc = "poll" =>
              /\ ~abortSeen
              /\ polls = (IF m_dispatch THEN callI ELSE 0)
              /\ m_iterations = entryIterations + callI)
    /\ [](abortSeen => (pc = "return" /\ m_dispatch /\ callI < callIterations))
    /\ []((pc = "return" /\ callKind = "loop") =>
              /\ m_iterations = entryIterations + callI
              /\ (~abortSeen => callI = callIterations))
    /\ [][(abortSeen \/ abortSeen') =>
              (simmedMoves' = simmedMoves /\ m_iterations' = m_iterations)]_vars

C6_Witness ==
    /\ pc = "return"
    /\ abortSeen
    /\ callIterations = 2
    /\ callI = 1
    /\ polls = 2
    /\ \E i \in DOMAIN simmedMoves : simmedMoves[i].wins.n = 1

\* C7: a rollout of simulate(plies) never commits more than plies + 1
\* moves, and commits exactly plies + 1 when the game does not end.
C7_RolloutCommitsPliesPlusOne ==
    InRollout =>
        /\ m_simulatedGame.turn <= callPlies + 1
        /\ (pc = "message" /\ ~m_simulatedGame.gameOver)
               => m_simulatedGame.turn = callPlies + 1

\* C8: after setIncludedMoves(moves) a simmed move is included iff its
\* move is in moves; every move of moves that was absent is appended once,
\* with empty accumulators; no simmed move is removed.
IncludedAsClaimed(after, moves) ==
    LET before == {simmedMoves[i].move : i \in DOMAIN simmedMoves}
        absent == Range(moves) \ before
    IN  /\ \A i \in DOMAIN after :
               after[i].includeInSimulation <=> after[i].move \in Range(moves)
        /\ Len(after) = Len(simmedMoves) + Cardinality(absent)
        /\ \A i \in DOMAIN simmedMoves :
               /\ after[i].move = simmedMoves[i].move
               /\ after[i].id = simmedMoves[i].id
        /\ \A m \in absent :
               \E i \in DOMAIN after \ DOMAIN simmedMoves :
                   /\ after[i].move = m
                   /\ after[i].levels = << >>
                   /\ Emptied(after[i].wins)
                   /\ Emptied(after[i].residual)
                   /\ Emptied(after[i].gameSpread)
                   /\ \A j \in DOMAIN after : after[j].move = m => j = i

C8_SetIncludedMovesIncludesExactlyTheInput ==
    pc = "idle" =>
        \A moves \in IncludedMoveLists :
            IncludedAsClaimed(
                SetIncludedMovesOf(simmedMoves, objectIdCounter, moves).simmed, moves)

C8_Witness ==
    /\ lastOp = "setIncludedMoves"
    /\ m_iterations >= 1
    /\ \E i \in DOMAIN simmedMoves :
           /\ ~simmedMoves[i].includeInSimulation
           /\ simmedMoves[i].wins.n >= 1
    /\ \E j \in IncludedSet(simmedMoves) :
           /\ simmedMoves[j].id = objectIdCounter
           /\ j = Len(simmedMoves)
           /\ simmedMoves[j].wins.n = 0

\* C9: after setPosition on a move list without duplicates, whatever is
\* called, simmedMoves never holds two entries with equal moves, and a
\* move once in it keeps its entry until the next setPosition.
C9_OneEntryPerMove ==
    /\ [](\A i, j \in DOMAIN simmedMoves :
              simmedMoves[i].move = simmedMoves[j].move => i = j)
    /\ [][lastOp' # "setPosition" =>
              \A i \in DOMAIN simmedMoves :
                  /\ i \in DOMAIN simmedMoves'
                  /\ simmedMoves'[i].move = simmedMoves[i].move]_vars

C9_Witness ==
    /\ lastOp = "makeSureConsideredMovesAreIncluded"
    /\ m_iterations >= 1
    /\ Len(simmedMoves) = NumMoves
    /\ simmedMoves[Len(simmedMoves)].wins.n = 0
    /\ simmedMoves[1].wins.n >= 1

\* The win value of a finished game, in half units.
WinOfSpread(spread) == IF spread > 0 THEN 2 ELSE IF spread = 0 THEN 1 ELSE 0

\* C10: a rollout's message has bogowin = false iff the simulated game is
\* over when the loops end; the win value then incorporated is 1, 0.5 or 0
\* as the spread seen from the start player is positive, zero or negative.
C10_BogowinIffGameGoesOn ==
    /\ [](pc = "incorporate" =>
              /\ message.bogowin = FALSE <=> m_simulatedGame.gameOver
              /\ m_simulatedGame.gameOver
                     => message.wins = WinOfSpread(m_simulatedGame.spread))
    /\ [][pc = "incorporate" =>
              \E i \in DOMAIN simmedMoves :
                  /\ simmedMoves[i].id = message.id
                  /\ simmedMoves'[i].wins.n = simmedMoves[i].wins.n + 1
                  /\ simmedMoves'[i].wins.sum
                         = simmedMoves[i].wins.sum + message.wins]_vars

C10_Witness ==
    /\ pc = "incorporate"
    /\ m_simulatedGame.gameOver
    /\ m_simulatedGame.turn >= 1
    /\ m_simulatedGame.spread = 0
    /\ message.wins = 1
    /\ ~message.bogowin

\* The sum of f over the finite set S of its domain.
RECURSIVE SumOver(_, _)
SumOver(f, S) ==
    IF S = {} THEN 0
    ELSE LET x == CHOOSE y \in S : TRUE
         IN  f[x] + SumOver(f, S \ {x})

\* The average score of slot k of a level, times AvgScale; 0 for a slot the
\* level does not have.
SlotAverage(statistics, k) ==
    IF k \in DOMAIN statistics THEN AveragedValueScaled(statistics[k].score) ELSE 0

\* The equity C11 describes, times 2 * AvgScale.
EquityAsClaimed(sm) ==
    IF Len(sm.levels) = 0
        THEN 2 * AvgScale * Equity(sm.move)
        ELSE 2 * SumOver([l \in DOMAIN sm.levels |->
                             SlotAverage(sm.levels[l], 1)
                             - SumOver([k \in DOMAIN sm.levels[l] |->
                                           SlotAverage(sm.levels[l], k)],
                                       DOMAIN sm.levels[l] \ {1})],
                         DOMAIN sm.levels)
             + AveragedValueScaled(sm.residual)

\* C11: calculateEquity gives the static equity of a move without levels,
\* and otherwise the sum over the levels of the first slot's average score
\* minus every other slot's, plus the average residual; with two players
\* that is the sum over the levels of slot 0's average minus slot 1's (a
\* slot a level lacks counting 0) plus the average residual.
C11_EquityReconstruction ==
    \A i \in DOMAIN simmedMoves :
        LET sm == simmedMoves[i]
        IN  /\ CalculateEquityScaled(sm) = EquityAsClaimed(sm)
            /\ (originalGame.numPlayers = 2 /\ sm.levels # << >>) =>
                   CalculateEquityScaled(sm) =
                       2 * SumOver([l \in DOMAIN sm.levels |->
                                       SlotAverage(sm.levels[l], 1)
                                       - SlotAverage(sm.levels[l], 2)],
                                   DOMAIN sm.levels)
                       + AveragedValueScaled(sm.residual)

C11_Witness ==
    /\ pc = "idle"
    /\ originalGame.numPlayers = 2
    /\ \E i \in DOMAIN simmedMoves :
           /\ Len(simmedMoves[i].levels) = 2
           /\ Len(simmedMoves[i].levels[1]) = 2
           /\ simmedMoves[i].levels[1][2].score.n = 2
           /\ simmedMoves[i].levels[2] # << >>
           /\ simmedMoves[i].residual.sum # 0
           /\ CalculateEquityScaled(simmedMoves[i])
                  # 2 * AvgScale * Equity(simmedMoves[i].move)

\* The loops of a rollout have ended with the game going on and with
\* plies + 1 plies committed.
FullDepthRollout ==
    /\ pc = "message"
    /\ ~m_simulatedGame.gameOver
    /\ Len(committed) = callPlies + 1

\* C12: in a rollout that runs to its full depth without the game ending
\* the last ply, and only the last, is committed with maintainBoard false
\* and (ignoreOppos off) adds the shared consideration to the residual.
C12_VeryFinalPlyIsTheLast ==
    FullDepthRollout =>
        \A k \in DOMAIN committed :
            /\ committed[k].maintainBoard <=> k # Len(committed)
            /\ ~m_ignoreOppos =>
                   (committed[k].sharedConsideration <=> k = Len(committed))

\* Ply k of the running rollout is the last of the player who plays it.
IsLastPlyOfItsPlayer(k) ==
    \A j \in DOMAIN committed :
        j > k => committed[j].playerId # committed[k].playerId

\* C13: in a rollout that runs to its full depth without the game ending,
\* ignoreOppos off, playerConsideration is evaluated on a ply iff the ply
\* is its player's last of the rollout, and what the ply adds to the
\* residual is then the consideration (with the shared consideration where
\* that is added), with a plus for the start player and a minus otherwise.
C13_PlayerConsiderationOncePerPlayer ==
    (FullDepthRollout /\ ~m_ignoreOppos) =>
        \A k \in DOMAIN committed :
            LET considered ==
                    m_simulatedGame.hidden.playerConsideration
                    + (IF committed[k].sharedConsideration
                           THEN m_simulatedGame.hidden.sharedConsideration ELSE 0)
            IN  /\ committed[k].playerConsideration <=> IsLastPlyOfItsPlayer(k)
                /\ committed[k].residualAddend =
                       (IF ~committed[k].playerConsideration THEN 0
                        ELSE IF committed[k].playerId = 0 THEN considered
                        ELSE 0 - considered)

\* The lead a rollout that ends with the game going on hands to bogowin,
\* before it is made an int, in half units.
LeadInHalves ==
    IF m_simulatedGame.currentPlayer = 0
        THEN 2 * Spread(m_simulatedGame) + residual
        ELSE 0 - 2 * Spread(m_simulatedGame) - residual

\* The largest integer at or below halves / 2.
FloorOfHalves(halves) ==
    LET a == IF halves < 0 THEN 0 - halves ELSE halves
    IN  CHOOSE t \in (0 - a - 1) .. a : 2 * t <= halves /\ halves < 2 * t + 2

\* The integer next to halves / 2 on the side of zero.
TowardZeroOfHalves(halves) ==
    LET a == IF halves < 0 THEN 0 - halves ELSE halves
    IN  CHOOSE t \in (0 - a) .. a :
            IF halves >= 0 THEN 2 * t <= halves /\ halves < 2 * t + 2
                           ELSE 2 * t >= halves /\ halves > 2 * t - 2

\* What C14 says of the bogowin call, `lead` being its spread argument.
BogowinCalledWith(lead) ==
    /\ bogowinCall.made
    /\ bogowinCall.spread = lead
    /\ bogowinCall.resource = m_simulatedGame.bagSize + RackSize
    /\ message.wins = (IF m_simulatedGame.currentPlayer = 0
                           THEN Bogowin(lead) ELSE 2 - Bogowin(lead))

\* C14, as stated: a rollout that ends with the game going on calls
\* bogowin with the floor of spread + residual (start player on turn) or
\* of -spread - residual (another player on turn, wins being 1 - bogowin),
\* and with bag size + rack size.
C14_BogowinGetsTheFloor ==
    (pc = "incorporate" /\ ~m_simulatedGame.gameOver) =>
        BogowinCalledWith(FloorOfHalves(LeadInHalves))

\* C14, amended: the spread argument is spread + residual, or -spread -
\* residual, rounded toward zero.
C14_BogowinGetsTheLeadTowardZero ==
    (pc = "incorporate" /\ ~m_simulatedGame.gameOver) =>
        BogowinCalledWith(TowardZeroOfHalves(LeadInHalves))

C14_Witness ==
    /\ pc = "incorporate"
    /\ ~m_simulatedGame.gameOver
    /\ bogowinCall.made
    /\ LeadInHalves < 0
    /\ LeadInHalves % 2 = 1
    /\ bogowinCall.spread = FloorOfHalves(LeadInHalves) + 1

\* C15: after a simulate call every level of every included simmed move
\* has at least 1 and at most numberOfPlayers slots.
C15_LevelsHaveOneToNumPlayersSlots ==
    (pc = "idle" /\ lastOp = "simulate") =>
        \A i \in IncludedSet(simmedMoves) :
            \A l \in DOMAIN simmedMoves[i].levels :
                /\ Len(simmedMoves[i].levels[l]) >= 1
                /\ Len(simmedMoves[i].levels[l]) <= originalGame.numPlayers

\* The step is a ply of a rollout.
IsPlyStep == pc = "ply" /\ slot' = slot + 1

\* C16: a ply whose move ends the game puts the move's score plus the
\* deadwood into the slot's score accumulator and commits the move with
\* its own score, to which the engine adds the deadwood; every other ply
\* records and commits the move's own score.
C16_DeadwoodRecordedNotCommitted ==
    [][IsPlyStep =>
          LET ply == committed'[Len(committed')]
              own == ChosenMove(m_simulatedGame.currentPlayer).score
              bonus == IF DoesMoveEndGame(m_simulatedGame, ply.chosen)
                           THEN Deadwood(m_simulatedGame) ELSE 0
              before == message.levels[levelNumber][slot].score
              after == message'.levels[levelNumber][slot].score
              gain == m_simulatedGame'.spread - m_simulatedGame.spread
          IN  /\ after.n = before.n + 1
              /\ after.sum = before.sum + own + bonus
              /\ ply.recorded = own + bonus
              /\ ply.score = own
              /\ gain = (IF m_simulatedGame.currentPlayer = 0
                             THEN own + bonus ELSE 0 - (own + bonus))]_vars

C16_Witness ==
    /\ pc = "message"
    /\ m_simulatedGame.gameOver
    /\ Len(committed) = 2
    /\ ~committed[1].endsGame
    /\ committed[1].recorded = committed[1].score
    /\ committed[2].endsGame
    /\ committed[2].recorded = committed[2].score + 1

\* C17: with ignoreOppos on, a ply of a player other than the start
\* player is a pass, puts 0 into its slot's score accumulator and leaves
\* the residual as it is.
C17_IgnoredOpponentsPass ==
    [][(IsPlyStep /\ m_ignoreOppos /\ m_simulatedGame.currentPlayer # 0) =>
          LET ply == committed'[Len(committed')]
              before == message.levels[levelNumber][slot].score
              after == message'.levels[levelNumber][slot].score
          IN  /\ ply.chosen.isPass
              /\ ply.score = 0
              /\ after.n = before.n + 1
              /\ after.sum = before.sum
              /\ residual' = residual
              /\ m_simulatedGame'.spread = m_simulatedGame.spread]_vars

C17_Witness ==
    /\ pc = "message"
    /\ m_ignoreOppos
    /\ callPlies = 1
    /\ Len(committed) = 2
    /\ committed[2].playerId = 1
    /\ committed[2].chosen.isPass
    /\ committed[2].recorded = 0
    /\ committed[1].residualAddend # 0
    /\ committed[2].residualAddend = 0

\* C18: the hidden state of the original game is drawn at the head of an
\* iteration, which changes nothing else of it; no step inside the
\* iteration changes the original game; and every rollout starts from it.
C18_OriginalGameUntouched ==
    /\ [][(pc \in {"idle", "poll"} /\ pc' = "move") =>
              [originalGame' EXCEPT !.hidden = originalGame.hidden] = originalGame]_vars
    /\ [][InIteration => originalGame' = originalGame]_vars
    /\ [][(pc = "move" /\ pc' = "level") => m_simulatedGame' = originalGame]_vars

C18_Witness ==
    /\ pc = "level"
    /\ levelNumber = 1
    /\ cursor = 2
    /\ simmedMoves[1].wins.n >= 1
    /\ m_simulatedGame = originalGame
    /\ originalGame.hidden # InitialHidden
    /\ originalGame.turn = 0


\* What a reader of the log is inside of after one more tag: "out" of any
\* element, in a "sim"ulation, in an "iter"ation, or "bad" once a tag came
\* where it may not.
NestingStep(state, tag) ==
    CASE state = "out" /\ tag = "<simulation>" -> "sim"
      [] state = "sim" /\ tag = "<iteration>" -> "iter"
      [] state = "iter" /\ tag = "</iteration>" -> "sim"
      [] state = "sim" /\ tag = "</simulation>" -> "out"
      [] OTHER -> "bad"

RECURSIVE NestingAfter(_)
NestingAfter(text) ==
    IF text = << >>
        THEN "out"
        ELSE NestingStep(NestingAfter(SubSeq(text, 1, Len(text) - 1)), text[Len(text)])

\* C19: the text of the log file is well nested under every sequence of
\* setLogfile, simulate, setPosition, resetNumbers and closeLogfile: a
\* </simulation> is written only while a <simulation> is open, every
\* <iteration> lies inside an open <simulation>, and m_hasHeader is true
\* exactly when a <simulation> is open in the current log file.
C19_LogIsWellNested ==
    /\ NestingAfter(logText) # "bad"
    /\ m_hasHeader <=> (m_logfileIsOpen /\ NestingAfter(logText) \in {"sim", "iter"})


\* The step belongs to a simulate call: it starts one, or is taken inside one.
InSimulateCall == pc # "idle" \/ pc' # "idle"

\* C20: a simulate call changes no accumulator (levels, residual,
\* gameSpread, wins) and no include flag of a simmed move that is not
\* included, and the result of each rollout is incorporated into exactly
\* one simmed move, the candidate that was rolled out.
C20_SimulateTouchesIncludedCandidatesOnly ==
    [][InSimulateCall =>
          /\ DOMAIN simmedMoves' = DOMAIN simmedMoves
          /\ \A i \in DOMAIN simmedMoves :
                 /\ simmedMoves'[i].includeInSimulation = simmedMoves[i].includeInSimulation
                 /\ ~simmedMoves[i].includeInSimulation => simmedMoves'[i] = simmedMoves[i]
          /\ pc = "incorporate" =>
                 /\ cursor \in IncludedSet(simmedMoves)
                 /\ simmedMoves[cursor].id = message.id
                 /\ simmedMoves'[cursor].wins.n = simmedMoves[cursor].wins.n + 1
                 /\ simmedMoves'[cursor].residual.n = simmedMoves[cursor].residual.n + 1
                 /\ simmedMoves'[cursor].gameSpread.n = simmedMoves[cursor].gameSpread.n + 1
                 /\ simmedMoves'[cursor].levels = message.levels
                 /\ \A i \in DOMAIN simmedMoves \ {cursor} : simmedMoves'[i] = simmedMoves[i]]_vars

\* A simulate call has returned on a list whose first move, simulated once
\* before, is excluded and kept its one value, while a later move took the
\* results of two iterations.
C20_Witness ==
    /\ pc = "idle"
    /\ lastOp = "simulate"
    /\ Len(simmedMoves) >= 2
    /\ ~simmedMoves[1].includeInSimulation
    /\ simmedMoves[1].wins.n = 1
    /\ \E j \in IncludedSet(simmedMoves) : j > 1 /\ simmedMoves[j].wins.n = 2

====
